---------------------------- MODULE Spec2Model ----------------------------
(***************************************************************************)
(* Si7013/20/21 relative humidity and temperature sensor driver            *)
(* (drivers/iio/humidity/si7020.c): si7020_probe and si7020_read_raw as a  *)
(* state machine over an i2c adapter, a device and a microsecond clock.    *)
(***************************************************************************)
EXTENDS Integers, Naturals, Sequences, FiniteSets, TLC

(* ------------------------------------------------------------------ *)
(* Program constants                                                    *)
(* ------------------------------------------------------------------ *)
SI7020CMD_RH_HOLD == 229        \* 0xE5
SI7020CMD_RH_NO_HOLD == 245     \* 0xF5
SI7020CMD_TEMP_HOLD == 227      \* 0xE3
SI7020CMD_TEMP_NO_HOLD == 243   \* 0xF3
SI7020CMD_RESET == 254          \* 0xFE
SI7020_RH_TIMEOUT == 22800
SI7020_TEMP_TIMEOUT == 10800
SI7020_NOHOLD_SLEEP_MIN == 2000
SI7020_NOHOLD_SLEEP_MAX == 6000
RH_RAW_MIN == 786
RH_RAW_MAX == 13893
PROBE_MSLEEP_MS == 15

EINVAL == 22
ENODEV == 19
ENOMEM == 12
IIO_VAL_INT == 1
IIO_VAL_FRACTIONAL == 10

USEC_PER_SEC == 1000000

(* ------------------------------------------------------------------ *)
(* Bounds of the model                                                  *)
(* ------------------------------------------------------------------ *)
\* how many of SleepDurations a usleep_range() can take
SleepChoices == 3
\* how many quarter-tick offsets into a tick a request can begin at
PhaseChoices == 2
\* modelled width of the unsigned long jiffies counter, in bits
JiffiesBits == 16

(* ------------------------------------------------------------------ *)
(* Value sets                                                           *)
(* ------------------------------------------------------------------ *)
Procs == {1, 2}                                  \* callers of read_raw
ChanTypes == {"IIO_HUMIDITYRELATIVE", "IIO_TEMP"}
Masks == {"IIO_CHAN_INFO_RAW", "IIO_CHAN_INFO_PROCESSED",
          "IIO_CHAN_INFO_SCALE", "IIO_CHAN_INFO_OFFSET",
          "IIO_CHAN_INFO_CALIBSCALE"}
Funcs == {"I2C_FUNC_I2C", "I2C_FUNC_SMBUS_WRITE_BYTE",
          "I2C_FUNC_SMBUS_READ_WORD_DATA"}
Quirks == {"I2C_AQ_NO_CLK_STRETCH"}
\* negative errno values an i2c transfer can fail with: -ENXIO, -ETIMEDOUT
TransportErrors == {-6, -110}
\* errors of devm_iio_device_register
RegisterErrors == {-ENOMEM, -16}
\* kernel tick rates (CONFIG_HZ) the driver can be built for
HZs == {100, 250, 1000}
\* 16-bit words the device can put on the wire: the corners of the 14-bit
\* range, both sides of both clamp bounds, and the spec's scenarios
Words == {0, 2000, 3143, 3144, 20000, 37428, 55575, 55576, 65535}
\* values of jiffies when a request begins (the counter wraps at 2^JiffiesBits)
JiffiesBases == {0, 2^JiffiesBits - 5}
\* content of the caller's *val / *val2 before the call
Unwritten == -1

(* ------------------------------------------------------------------ *)
(* Pure helpers                                                         *)
(* ------------------------------------------------------------------ *)
Min(a, b) == IF a < b THEN a ELSE b
Max(a, b) == IF a > b THEN a ELSE b

\* x >> n on a non-negative int
Shr(x, n) == x \div (2^n)

\* a clamp that forgets the upper bound
clamp_val_lower_only(v, lo, hi) == Max(v, lo)

\* clamp_val(val, lo, hi) == min(max(val, lo), hi)
clamp_val(v, lo, hi) == Min(Max(v, lo), hi)

\* swab16: exchange the two bytes of a 16-bit word
swab16(w) == (w % 256) * 256 + (w \div 256)

\* i2c_smbus_read_word_data assembles the two wire bytes little-endian
smbus_word(b0, b1) == b0 + 256 * b1

\* the word read without the byte swap
read_word_unswapped(b0, b1) == smbus_word(b0, b1)

\* i2c_smbus_read_word_swapped on wire bytes <<b0, b1>>
i2c_smbus_read_word_swapped(b0, b1) == swab16(smbus_word(b0, b1))

\* the bytes a device puts on the wire for the 16-bit sample w, MSB first
WireBytes(w) == <<w \div 256, w % 256>>

\* *val = ret >> 2 (hold mode)
HoldRaw(ret) == Shr(ret, 2)

\* the two bytes of buf assembled in the wrong order
NoHoldRaw_little_endian(buf) == Shr(buf[2] * 256 + buf[1], 2)

\* *val = ((buf[0] << 8) | buf[1]) >> 2 (no-hold mode)
NoHoldRaw(buf) == Shr(buf[1] * 256 + buf[2], 2)

\* the clamp applied to the other channel
ClampForChan_wrong_channel(type, v) ==
    IF type = "IIO_TEMP" THEN clamp_val(v, RH_RAW_MIN, RH_RAW_MAX) ELSE v

\* the humidity clamp applied after either mode
ClampForChan(type, v) ==
    IF type = "IIO_HUMIDITYRELATIVE" THEN clamp_val(v, RH_RAW_MIN, RH_RAW_MAX) ELSE v

\* i2c_check_functionality(adap, func): all bits of func are supported
i2c_check_functionality(adap, func) == func \subseteq adap.functionality

\* i2c_check_quirks(adap, quirks): some bit of quirks is set
i2c_check_quirks(adap, q) == (q \cap adap.quirks) # {}

\* holdmode taken from the adapter quirk alone, platform data ignored
HoldMode_ignores_pdata(pd, adap) ==
    ~i2c_check_quirks(adap, {"I2C_AQ_NO_CLK_STRETCH"})

\* holdmode as si7020_read_raw computes it on every raw read
HoldMode(pd, adap) ==
    IF pd.present THEN pd.blocking_io
    ELSE ~i2c_check_quirks(adap, {"I2C_AQ_NO_CLK_STRETCH"})

\* the checks with || for && where no platform data is given
ProbeCheck_or(pd, adap) ==
    IF ~i2c_check_functionality(adap, {"I2C_FUNC_SMBUS_WRITE_BYTE",
                                       "I2C_FUNC_SMBUS_READ_WORD_DATA"})
    THEN -ENODEV
    ELSE IF pd.present
    THEN IF pd.blocking_io
         THEN IF i2c_check_quirks(adap, {"I2C_AQ_NO_CLK_STRETCH"})
              THEN -ENODEV ELSE 0
         ELSE IF ~i2c_check_functionality(adap, {"I2C_FUNC_I2C"})
              THEN -ENODEV ELSE 0
    ELSE IF ~i2c_check_functionality(adap, {"I2C_FUNC_I2C"})
            \/ i2c_check_quirks(adap, {"I2C_AQ_NO_CLK_STRETCH"})
         THEN -ENODEV ELSE 0

\* the checks with the platform data branch left out
ProbeCheck_skips_pdata(pd, adap) ==
    IF ~i2c_check_functionality(adap, {"I2C_FUNC_SMBUS_WRITE_BYTE",
                                       "I2C_FUNC_SMBUS_READ_WORD_DATA"})
    THEN -ENODEV
    ELSE IF pd.present
    THEN 0
    ELSE IF ~i2c_check_functionality(adap, {"I2C_FUNC_I2C"})
            /\ i2c_check_quirks(adap, {"I2C_AQ_NO_CLK_STRETCH"})
         THEN -ENODEV ELSE 0

\* the capability checks of si7020_probe: 0, or -ENODEV
ProbeCheck(pd, adap) ==
    IF ~i2c_check_functionality(adap, {"I2C_FUNC_SMBUS_WRITE_BYTE",
                                       "I2C_FUNC_SMBUS_READ_WORD_DATA"})
    THEN -ENODEV
    ELSE IF pd.present
    THEN IF pd.blocking_io
         THEN IF i2c_check_quirks(adap, {"I2C_AQ_NO_CLK_STRETCH"})
              THEN -ENODEV ELSE 0
         ELSE IF ~i2c_check_functionality(adap, {"I2C_FUNC_I2C"})
              THEN -ENODEV ELSE 0
    ELSE IF ~i2c_check_functionality(adap, {"I2C_FUNC_I2C"})
            /\ i2c_check_quirks(adap, {"I2C_AQ_NO_CLK_STRETCH"})
         THEN -ENODEV ELSE 0

\* the command with the channel test inverted
MeasureCmd_wrong_kind(type, hold) ==
    IF hold
    THEN IF type = "IIO_TEMP" THEN SI7020CMD_RH_HOLD ELSE SI7020CMD_TEMP_HOLD
    ELSE IF type = "IIO_TEMP" THEN SI7020CMD_RH_NO_HOLD ELSE SI7020CMD_TEMP_NO_HOLD

\* the command of hold mode sent in either mode
MeasureCmd_always_hold(type, hold) ==
    IF type = "IIO_TEMP" THEN SI7020CMD_TEMP_HOLD ELSE SI7020CMD_RH_HOLD

\* the measurement command of a raw read
MeasureCmd(type, hold) ==
    IF hold
    THEN IF type = "IIO_TEMP" THEN SI7020CMD_TEMP_HOLD ELSE SI7020CMD_RH_HOLD
    ELSE IF type = "IIO_TEMP" THEN SI7020CMD_TEMP_NO_HOLD ELSE SI7020CMD_RH_NO_HOLD

\* the two budgets exchanged
TimeoutUs_swapped(type) ==
    IF type = "IIO_TEMP" THEN SI7020_RH_TIMEOUT ELSE SI7020_TEMP_TIMEOUT

\* the polling budget of a no-hold raw read, in microseconds
TimeoutUs(type) ==
    IF type = "IIO_TEMP" THEN SI7020_TEMP_TIMEOUT ELSE SI7020_RH_TIMEOUT

\* the two scale numerators exchanged
ScaleVal_swapped(type) == IF type = "IIO_TEMP" THEN 125 * 1000 ELSE 175720

\* IIO_CHAN_INFO_SCALE: *val and *val2
ScaleVal(type) == IF type = "IIO_TEMP" THEN 175720 ELSE 125 * 1000
ScaleVal2 == Shr(65536, 2)

\* the offsets with their sign lost
OffsetVal_unsigned(type) == IF type = "IIO_TEMP" THEN 4368 ELSE 786

\* IIO_CHAN_INFO_OFFSET: *val
OffsetVal(type) == IF type = "IIO_TEMP" THEN -4368 ELSE -786

\* length of one clock tick in microseconds
TickUs(hz) == USEC_PER_SEC \div hz

\* the conversion of a millisecond count applied to the microsecond value
msecs_to_jiffies_of_usecs(u, hz) == (u * 1000 + TickUs(hz) - 1) \div TickUs(hz)

\* usecs_to_jiffies(u): u rounded up to whole ticks (HZ divides USEC_PER_SEC)
usecs_to_jiffies(u, hz) == (u + TickUs(hz) - 1) \div TickUs(hz)

\* unsigned long arithmetic
ULong(x) == x % (2^JiffiesBits)

\* time_after(a, b) == ((long)((b) - (a)) < 0)
time_after(a, b) == ULong(b - a) >= 2^(JiffiesBits - 1)

\* durations within [lo, hi] of a usleep_range(lo, hi), as fractions of hi - lo
\* in eighths: both ends first, then the points between
SleepEighths == <<0, 8, 4, 2, 6, 1, 3, 5, 7>>

\* the durations usleep_range(lo, hi) can take
usleep_range(lo, hi) ==
    {lo + (SleepEighths[i] * (hi - lo)) \div 8 :
        i \in 1..Min(SleepChoices, Len(SleepEighths))}

\* a delay of ms microseconds instead of milliseconds
msleep_as_usecs(ms, hz) == {ms + k * TickUs(hz) : k \in 0..1}

\* the durations msleep(ms) can take: at least ms, the timer may fire a tick later
msleep(ms, hz) == {ms * 1000 + k * TickUs(hz) : k \in 0..1}

\* offsets into the current tick at which a request can begin
Phases(hz) == {(i * TickUs(hz)) \div 4 : i \in 0..(Min(PhaseChoices, 4) - 1)}

(* ------------------------------------------------------------------ *)
(* State                                                                *)
(* ------------------------------------------------------------------ *)
VARIABLES
    adapter,     \* client->adapter: [functionality, quirks]
    pdata,       \* dev_get_platdata(): [present, blocking_io]
    HZ,          \* tick rate of the build
    serialized,  \* TRUE when the caller admits one request per device at a time
    now,         \* microseconds since a tick boundary before the current activity
    jbase,       \* value of jiffies at that tick boundary
    probePc,     \* position of si7020_probe
    probeRet,    \* its return value
    probeLog,    \* what si7020_probe did so far, in order
    channels,    \* channel types registered with the IIO core
    devCmd,      \* the measurement command the device received last (0: none)
    call         \* per caller: the locals of its si7020_read_raw invocation

vars == <<adapter, pdata, HZ, serialized, now, jbase, probePc, probeRet,
          probeLog, channels, devCmd, call>>

config == <<adapter, pdata, HZ, serialized>>
probeVars == <<probePc, probeRet, probeLog, channels>>

\* the value of the jiffies counter at time t
jiffies(t) == ULong(jbase + t \div TickUs(HZ))

\* a caller that is not inside si7020_read_raw
IdleCall ==
    [pc |-> "idle", type |-> "IIO_TEMP", mask |-> "IIO_CHAN_INFO_RAW",
     val |-> Unwritten, val2 |-> Unwritten, ret |-> 0, rv |-> 0,
     holdmode |-> FALSE, buf |-> <<>>, start |-> 0,
     \* what the transport saw and did during this call
     cmds |-> <<>>, nxfer |-> 0, nrecv |-> 0, nsleep |-> 0,
     wire |-> <<>>, xerr |-> 0, sample |-> 0, t0 |-> 0]

Adapters == [functionality : SUBSET Funcs, quirks : SUBSET Quirks]
PlatformData == {[present |-> FALSE, blocking_io |-> FALSE],
                 [present |-> TRUE, blocking_io |-> FALSE],
                 [present |-> TRUE, blocking_io |-> TRUE]}

InitWith(ser) ==
    /\ adapter \in Adapters
    /\ pdata \in PlatformData
    /\ HZ \in HZs
    /\ serialized = ser
    /\ now = 0
    /\ jbase = 0
    /\ probePc = "check"
    /\ probeRet = 0
    /\ probeLog = <<>>
    /\ channels = {}
    /\ devCmd = 0
    /\ call = [p \in Procs |-> IdleCall]

Init == InitWith(TRUE)

(* ------------------------------------------------------------------ *)
(* si7020_probe                                                         *)
(* ------------------------------------------------------------------ *)
Ev(op, arg) == [op |-> op, arg |-> arg]

\* lines 168-185: the capability checks, before any bus traffic
ProbeCapabilities ==
    /\ probePc = "check"
    /\ LET r == ProbeCheck(pdata, adapter) IN
       IF r < 0
       THEN probePc' = "failed" /\ probeRet' = r
       ELSE probePc' = "reset" /\ probeRet' = probeRet
    /\ UNCHANGED <<config, now, jbase, probeLog, channels, devCmd, call>>

\* lines 188-190: i2c_smbus_write_byte(client, SI7020CMD_RESET)
ProbeReset ==
    /\ probePc = "reset"
    /\ probeLog' = Append(probeLog, Ev("write", SI7020CMD_RESET))
    /\ \/ \E e \in TransportErrors :
             /\ probePc' = "failed"
             /\ probeRet' = e
       \/ /\ probePc' = "msleep"
          /\ probeRet' = 0
    /\ UNCHANGED <<config, now, jbase, channels, devCmd, call>>

\* line 192: msleep(15)
ProbeDelay ==
    /\ probePc = "msleep"
    /\ \E d \in msleep(PROBE_MSLEEP_MS, HZ) :
          /\ now' = now + d
          /\ probeLog' = Append(probeLog, Ev("msleep", d))
    /\ probePc' = "alloc"
    /\ UNCHANGED <<config, jbase, probeRet, channels, devCmd, call>>

\* lines 194-196: devm_iio_device_alloc
ProbeAlloc ==
    /\ probePc = "alloc"
    /\ probeLog' = Append(probeLog, Ev("alloc", 0))
    /\ \/ /\ probePc' = "failed"
          /\ probeRet' = -ENOMEM
       \/ /\ probePc' = "register"
          /\ probeRet' = probeRet
    /\ UNCHANGED <<config, now, jbase, channels, devCmd, call>>

\* lines 198-208: fill in indio_dev and devm_iio_device_register
ProbeRegister ==
    /\ probePc = "register"
    /\ probeLog' = Append(probeLog, Ev("register", 0))
    /\ \/ \E e \in RegisterErrors :
             /\ probePc' = "failed"
             /\ probeRet' = e
             /\ channels' = channels
       \/ /\ probePc' = "attached"
          /\ probeRet' = 0
          /\ channels' = ChanTypes
    /\ UNCHANGED <<config, now, jbase, devCmd, call>>

(* ------------------------------------------------------------------ *)
(* si7020_read_raw                                                      *)
(* ------------------------------------------------------------------ *)
\* the IIO core calls read_raw only on a registered device; a serialising
\* caller admits one request at a time
CanStart(p) ==
    /\ probePc = "attached"
    /\ call[p].pc = "idle"
    /\ serialized => \A q \in Procs \ {p} : call[q].pc = "idle"

\* entry of si7020_read_raw(indio_dev, chan, val, val2, mask)
Begin(type, mask) == [IdleCall EXCEPT !.type = type, !.mask = mask]

\* case IIO_CHAN_INFO_SCALE
ScaleCall(type) ==
    [Begin(type, "IIO_CHAN_INFO_SCALE") EXCEPT
        !.val = ScaleVal(type), !.val2 = ScaleVal2,
        !.rv = IIO_VAL_FRACTIONAL, !.pc = "done"]

\* case IIO_CHAN_INFO_OFFSET
OffsetCall(type) ==
    [Begin(type, "IIO_CHAN_INFO_OFFSET") EXCEPT
        !.val = OffsetVal(type), !.rv = IIO_VAL_INT, !.pc = "done"]

\* the default case falling through into the scale case
InvalidCall_fallthrough(type, mask) ==
    [ScaleCall(type) EXCEPT !.mask = mask]

\* default: break; return -EINVAL
InvalidCall(type, mask) ==
    [Begin(type, mask) EXCEPT !.rv = -EINVAL, !.pc = "done"]

\* hold mode, the combined transaction failed with e: return ret
HoldFailCall(type, e) ==
    [Begin(type, "IIO_CHAN_INFO_RAW") EXCEPT
        !.holdmode = TRUE, !.cmds = <<MeasureCmd(type, TRUE)>>, !.nxfer = 1,
        !.xerr = e, !.ret = e, !.rv = e, !.pc = "done"]

\* hold mode, the device answered the command with wire bytes b
HoldOkCall(type, b) ==
    LET word == i2c_smbus_read_word_swapped(b[1], b[2]) IN
    [Begin(type, "IIO_CHAN_INFO_RAW") EXCEPT
        !.holdmode = TRUE, !.cmds = <<MeasureCmd(type, TRUE)>>, !.nxfer = 1,
        !.wire = b, !.sample = MeasureCmd(type, TRUE),
        !.ret = word, !.val = ClampForChan(type, HoldRaw(word)),
        !.rv = IIO_VAL_INT, !.pc = "done"]

\* no-hold mode, the command write failed with e: return ret
WriteFailCall(type, e) ==
    [Begin(type, "IIO_CHAN_INFO_RAW") EXCEPT
        !.cmds = <<MeasureCmd(type, FALSE)>>,
        !.xerr = e, !.ret = e, !.rv = e, !.pc = "done"]

\* no-hold mode, the command write succeeded at time t: start = jiffies
WriteOkCall(type, j, t) ==
    [Begin(type, "IIO_CHAN_INFO_RAW") EXCEPT
        !.cmds = <<MeasureCmd(type, FALSE)>>,
        !.ret = 0, !.start = j, !.t0 = t, !.pc = "recv"]

\* the loop keeping the error of its first failed read
RecvFailCall_first_error(c, e) ==
    [c EXCEPT !.nrecv = @ + 1, !.xerr = e,
              !.ret = IF c.nrecv = 0 THEN e ELSE c.ret, !.pc = "failed"]

\* i2c_master_recv(client, buf, 2) failed with e: the loop body runs
RecvFailCall(c, e) ==
    [c EXCEPT !.nrecv = @ + 1, !.xerr = e, !.ret = e, !.pc = "failed"]

\* i2c_master_recv returned n >= 0 and left b in buf, of which the first n
\* bytes came from the device converting command cmd: the loop ends
RecvDoneCall(c, n, b, cmd) ==
    [c EXCEPT !.nrecv = @ + 1, !.ret = n, !.buf = b,
              !.wire = SubSeq(b, 1, n), !.sample = cmd,
              !.val = ClampForChan(c.type, NoHoldRaw(b)),
              !.rv = IIO_VAL_INT, !.pc = "done"]

\* time_after(jiffies, start + usecs_to_jiffies(timeout)) at time t
TimeoutExpired(c, t) ==
    time_after(jiffies(t), ULong(c.start + usecs_to_jiffies(TimeoutUs(c.type), HZ)))

\* the expired timeout reported as -ETIME instead of ret
TimedOutCall_etime(c) == [c EXCEPT !.rv = -62, !.pc = "done"]

\* the loop sleeping before it tests the timeout
TimedOutCall_after_sleep(c) ==
    [c EXCEPT !.nsleep = @ + 1, !.rv = c.ret, !.pc = "done"]

\* the timeout has expired after a failed read: return ret
TimedOutCall(c) == [c EXCEPT !.rv = c.ret, !.pc = "done"]

\* usleep_range() between two read attempts
SleepCall(c) == [c EXCEPT !.nsleep = @ + 1, !.pc = "recv"]

\* i2c_master_recv returning a count n below 2 without an error: the first n
\* bytes of buf come from the device, the rest is what the stack held
ShortReads == {[n |-> 0, buf |-> <<0, 0>>], [n |-> 0, buf |-> <<255, 255>>],
               [n |-> 1, buf |-> <<78, 0>>], [n |-> 1, buf |-> <<78, 255>>]}

\* callers that issue requests: callers are interchangeable, so one stands
\* for all of them when requests are serialised
Callers == IF serialized THEN {1} ELSE Procs

\* the inputs of a step: when requests overlap, one input of each kind
\* stands for the others, since whose command the device converted does
\* not depend on the bytes, on the error code or on the length of a sleep
OneOf(S) == IF serialized THEN S ELSE {CHOOSE x \in S : TRUE}

\* overlapping requests share the clock, which is rebased only when none
\* is in flight: a request joins others no later than this many us
MaxOverlapUs == 8000

ReadScale(p) ==
    /\ CanStart(p)
    /\ \E type \in channels : call' = [call EXCEPT ![p] = ScaleCall(type)]
    /\ UNCHANGED <<config, now, jbase, probeVars, devCmd>>

ReadOffset(p) ==
    /\ CanStart(p)
    /\ \E type \in channels : call' = [call EXCEPT ![p] = OffsetCall(type)]
    /\ UNCHANGED <<config, now, jbase, probeVars, devCmd>>

ReadInvalid(p) ==
    /\ CanStart(p)
    /\ \E type \in channels :
       \E mask \in Masks \ {"IIO_CHAN_INFO_RAW", "IIO_CHAN_INFO_SCALE",
                             "IIO_CHAN_INFO_OFFSET"} :
          call' = [call EXCEPT ![p] = InvalidCall(type, mask)]
    /\ UNCHANGED <<config, now, jbase, probeVars, devCmd>>

\* lines 78-85 and 106-112: i2c_smbus_read_word_swapped, one bus transaction
ReadRawHold(p) ==
    /\ CanStart(p)
    /\ HoldMode(pdata, adapter)
    /\ \E type \in channels :
         \/ \E e \in OneOf(TransportErrors) :
               /\ call' = [call EXCEPT ![p] = HoldFailCall(type, e)]
               /\ devCmd' = devCmd
         \/ \E w \in OneOf(Words) :
               /\ call' = [call EXCEPT ![p] = HoldOkCall(type, WireBytes(w))]
               /\ devCmd' = MeasureCmd(type, TRUE)
    /\ UNCHANGED <<config, now, jbase, probeVars>>

\* lines 87-93: i2c_smbus_write_byte of the no-hold command, start = jiffies
ReadRawNoHoldWrite(p) ==
    /\ CanStart(p)
    /\ ~HoldMode(pdata, adapter)
    /\ IF \A q \in Procs : call[q].pc = "idle"
       THEN now' \in OneOf(Phases(HZ)) /\ jbase' \in OneOf(JiffiesBases)
       ELSE now <= MaxOverlapUs /\ UNCHANGED <<now, jbase>>
    /\ \E type \in channels :
         \/ \E e \in OneOf(TransportErrors) :
               /\ call' = [call EXCEPT ![p] = WriteFailCall(type, e)]
               /\ devCmd' = devCmd
         \/ /\ call' = [call EXCEPT ![p] =
                  WriteOkCall(type, ULong(jbase' + now' \div TickUs(HZ)), now')]
            /\ devCmd' = MeasureCmd(type, FALSE)
    /\ UNCHANGED <<config, probeVars>>

\* line 94: one i2c_master_recv(client, buf, 2); on ret >= 0 lines 104-112
Recv(p) ==
    /\ call[p].pc = "recv"
    /\ \/ \E e \in OneOf(TransportErrors) :
             call' = [call EXCEPT ![p] = RecvFailCall(call[p], e)]
       \/ \E w \in OneOf(Words) :
             call' = [call EXCEPT ![p] = RecvDoneCall(call[p], 2, WireBytes(w), devCmd)]
       \/ \E s \in OneOf(ShortReads) :
             call' = [call EXCEPT ![p] = RecvDoneCall(call[p], s.n, s.buf, devCmd)]
    /\ UNCHANGED <<config, now, jbase, probeVars, devCmd>>

\* lines 95-100: the timeout has expired
TimedOut(p) ==
    /\ call[p].pc = "failed"
    /\ TimeoutExpired(call[p], now)
    /\ call' = [call EXCEPT ![p] = TimedOutCall(call[p])]
    /\ UNCHANGED <<config, now, jbase, probeVars, devCmd>>

\* lines 101-102: usleep_range(SI7020_NOHOLD_SLEEP_MIN, SI7020_NOHOLD_SLEEP_MAX)
Sleep(p) ==
    /\ call[p].pc = "failed"
    /\ ~TimeoutExpired(call[p], now)
    /\ \E d \in OneOf(usleep_range(SI7020_NOHOLD_SLEEP_MIN, SI7020_NOHOLD_SLEEP_MAX)) :
          now' = now + d
    /\ call' = [call EXCEPT ![p] = SleepCall(call[p])]
    /\ UNCHANGED <<config, jbase, probeVars, devCmd>>

\* the caller takes the result; its next call starts afresh
Return(p) ==
    /\ call[p].pc = "done"
    /\ call' = [call EXCEPT ![p] = IdleCall]
    /\ UNCHANGED <<config, now, jbase, probeVars, devCmd>>

Next ==
    \/ ProbeCapabilities
    \/ ProbeReset
    \/ ProbeDelay
    \/ ProbeAlloc
    \/ ProbeRegister
    \/ \E p \in Callers :
          \/ ReadScale(p)
          \/ ReadOffset(p)
          \/ ReadInvalid(p)
          \/ ReadRawHold(p)
          \/ ReadRawNoHoldWrite(p)
          \/ Recv(p)
          \/ TimedOut(p)
          \/ Sleep(p)
          \/ Return(p)

Spec == Init /\ [][Next]_vars

\* every transport call and every sleep of a polling read returns, and the
\* time check after a failed read is made
Fairness ==
    \A p \in {1} :
        WF_vars(Recv(p)) /\ WF_vars(TimedOut(p)) /\ WF_vars(Sleep(p))

\* the polling loop does not depend on how its mode was chosen: an adapter
\* with every functionality and no platform data, with or without the
\* clock-stretch quirk, serialised requests (issued by caller 1)
LiveInit ==
    /\ InitWith(TRUE)
    /\ adapter.functionality = Funcs
    /\ ~pdata.present

FairSpec == LiveInit /\ [][Next]_vars /\ Fairness

\* si7020_read_raw takes no lock (lines 59-112): requests may or may not be
\* serialised by their callers. The interleaving of two calls does not
\* depend on the tick length or on how the mode was chosen: one tick
\* length, an adapter with every functionality, no platform data.
ConcInit ==
    /\ \E ser \in BOOLEAN : InitWith(ser)
    /\ adapter.functionality = Funcs
    /\ ~pdata.present
    /\ HZ = 1000

ConcSpec == ConcInit /\ [][Next]_vars

(* ------------------------------------------------------------------ *)
(* Properties                                                           *)
(* ------------------------------------------------------------------ *)
\* a finished raw read
RawDone(c) == c.pc = "done" /\ c.mask = "IIO_CHAN_INFO_RAW"
\* a raw read that returned success
RawOk(c) == RawDone(c) /\ c.rv >= 0
\* the transport delivered a complete 16-bit word to this call
Delivered(c) == Len(c.wire) = 2
\* that word, first wire byte most significant
WordOf(c) == c.wire[1] * 256 + c.wire[2]
\* a no-hold raw read whose write succeeded and that gave up polling
TimedOutDone(c) == RawDone(c) /\ ~c.holdmode /\ c.rv < 0 /\ c.nrecv > 0
\* time since just after the command write
Elapsed(c) == now - c.t0
\* the call made no transport call at all
NoTransport(c) ==
    c.cmds = <<>> /\ c.nxfer = 0 /\ c.nrecv = 0 /\ c.nsleep = 0 /\ c.wire = <<>>

\* C1: a successful Raw read of the Humidity channel returns a value in
\* [786, 13893], and when the transport delivered the word W (hold or
\* no-hold mode) that value is min(max(W >> 2, 786), 13893).
C1_HumidityClamped ==
    \A p \in Procs :
        LET c == call[p] IN
        (RawOk(c) /\ c.type = "IIO_HUMIDITYRELATIVE") =>
            /\ c.val >= 786 /\ c.val <= 13893
            /\ Delivered(c) =>
                 LET r == WordOf(c) \div 4 IN
                 c.val = (IF r < 786 THEN 786 ELSE IF r > 13893 THEN 13893 ELSE r)

\* C1 witness: a no-hold Humidity read of the word 2000 (500 before the
\* clamp) returned 786.
C1_Witness ==
    \E p \in Procs :
        LET c == call[p] IN
        /\ RawOk(c) /\ c.type = "IIO_HUMIDITYRELATIVE" /\ ~c.holdmode
        /\ Delivered(c) /\ WordOf(c) = 2000 /\ c.val = 786

\* C2: a successful Raw read of the Temperature channel to which the
\* transport delivered the word W returns exactly W >> 2, tagged
\* IIO_VAL_INT, unclamped, in hold and in no-hold mode.
C2_TemperatureExact ==
    \A p \in Procs :
        LET c == call[p] IN
        (RawOk(c) /\ c.type = "IIO_TEMP" /\ Delivered(c)) =>
            /\ c.val = WordOf(c) \div 4
            /\ c.rv = 1

\* C2 witness: a hold-mode Temperature read of 0x9234 returned 9357.
C2_Witness ==
    \E p \in Procs :
        LET c == call[p] IN
        /\ RawOk(c) /\ c.type = "IIO_TEMP" /\ c.holdmode
        /\ c.wire = <<146, 52>> /\ c.val = 9357

\* the smallest number of ticks that cover u microseconds
TicksCovering(u) ==
    CHOOSE n \in 0..u : n * TickUs(HZ) >= u /\ (n - 1) * TickUs(HZ) < u

\* C3 as stated: a no-hold Raw read whose every read attempt fails returns
\* at an elapsed time t with timeout <= t <= timeout + 6000 us.
C3_Original ==
    \A p \in Procs :
        LET c == call[p] IN
        TimedOutDone(c) =>
            LET timeout == IF c.type = "IIO_TEMP" THEN 10800 ELSE 22800 IN
            /\ timeout <= Elapsed(c)
            /\ Elapsed(c) <= timeout + 6000

\* C3 amended: the elapsed time t satisfies timeout <= t, and t is below
\* (the timeout rounded up to whole clock ticks, plus one tick) + 6000 us.
C3_TimeoutWindow ==
    \A p \in Procs :
        LET c == call[p] IN
        TimedOutDone(c) =>
            LET timeout == IF c.type = "IIO_TEMP" THEN 10800 ELSE 22800 IN
            /\ timeout <= Elapsed(c)
            /\ Elapsed(c) < (TicksCovering(timeout) + 1) * TickUs(HZ) + 6000

\* C3 witness: a Humidity read that gave up later than timeout + 6000 us.
C3_Witness ==
    \E p \in Procs :
        LET c == call[p] IN
        /\ TimedOutDone(c) /\ c.type = "IIO_HUMIDITYRELATIVE"
        /\ Elapsed(c) > 22800 + 6000

\* C4: in no-hold mode one command was written; sleeps and failed read
\* attempts alternate (before an attempt as many sleeps as attempts, after
\* an attempt one fewer); and a read that succeeds on attempt k+1 with
\* bytes [b0, b1] returns ((b0 << 8) | b1) >> 2, clamped for Humidity,
\* after exactly k+1 attempts and k sleeps.
C4_PollingCounts ==
    \A p \in Procs :
        LET c == call[p] IN
        (c.mask = "IIO_CHAN_INFO_RAW" /\ ~c.holdmode /\ c.pc # "idle"
            /\ (c.pc = "done" => c.nrecv > 0)) =>
            /\ Len(c.cmds) = 1 /\ c.nxfer = 0
            /\ c.pc = "recv" => c.nsleep = c.nrecv
            /\ c.pc \in {"failed", "done"} => c.nsleep = c.nrecv - 1
            /\ (c.pc = "done" /\ c.rv >= 0 /\ Delivered(c)) =>
                 LET r == (c.wire[1] * 256 + c.wire[2]) \div 4 IN
                 /\ c.rv = 1
                 /\ c.type = "IIO_TEMP" => c.val = r
                 /\ c.type = "IIO_HUMIDITYRELATIVE" =>
                      c.val = (IF r < 786 THEN 786 ELSE IF r > 13893 THEN 13893 ELSE r)

\* C4 witness: two failed attempts, two sleeps, the third attempt delivers
\* [0x4E, 0x20] and the read returns 5000.
C4_Witness ==
    \E p \in Procs :
        LET c == call[p] IN
        /\ RawOk(c) /\ ~c.holdmode /\ c.nrecv = 3 /\ c.nsleep = 2
        /\ c.wire = <<78, 32>> /\ c.val = 5000

\* si7020_probe returned -ENODEV from its capability checks, before any
\* bus traffic
NegotiationFailed ==
    probePc = "failed" /\ probeLog = <<>> /\ probeRet = -19
\* the capability checks have run and let the probe go on
NegotiationPassed == probePc \notin {"check", "failed"} \/ (probePc = "failed" /\ probeLog # <<>>)
\* every raw read so far ran in mode hold
RawReadsUse(hold) ==
    \A p \in Procs :
        (call[p].pc # "idle" /\ call[p].mask = "IIO_CHAN_INFO_RAW") =>
            call[p].holdmode = hold
NoClkStretch == "I2C_AQ_NO_CLK_STRETCH" \in adapter.quirks
RawIO == "I2C_FUNC_I2C" \in adapter.functionality
SMBusOK == {"I2C_FUNC_SMBUS_WRITE_BYTE", "I2C_FUNC_SMBUS_READ_WORD_DATA"}
               \subseteq adapter.functionality

\* what C5 says of a transport, given no platform configuration
C5_Outcome ==
    /\ (NoClkStretch /\ RawIO) => (NegotiationPassed /\ RawReadsUse(FALSE))
    /\ ~NoClkStretch => (NegotiationPassed /\ RawReadsUse(TRUE))
    /\ (NoClkStretch /\ ~RawIO) => NegotiationFailed

\* C5 as stated: with no platform configuration the outcome of capability
\* negotiation depends on the clock-stretch and raw-I/O capabilities alone.
C5_Original ==
    (~pdata.present /\ probePc # "check") => C5_Outcome

\* C5 amended: on a transport that provides SMBus write-byte and
\* read-word-data the outcome is as stated; a transport that lacks either
\* fails negotiation with -ENODEV whatever its other capabilities.
C5_AutoSelect ==
    (~pdata.present /\ probePc # "check") =>
        /\ SMBusOK => C5_Outcome
        /\ ~SMBusOK => NegotiationFailed

\* C5 witness: no configuration, no clock stretching, raw I/O: the device
\* attached and a raw read is polling in no-hold mode.
C5_Witness ==
    /\ ~pdata.present /\ NoClkStretch /\ RawIO /\ probePc = "attached"
    /\ \E p \in Procs : call[p].pc = "recv" /\ ~call[p].holdmode

\* what C6 gives as the cases in which negotiation fails
C6_FailCases ==
    \/ pdata.blocking_io /\ NoClkStretch
    \/ ~pdata.blocking_io /\ ~RawIO

\* C6 as stated: with a platform configuration, negotiation fails exactly
\* in the two cases above, and raw reads run in the mode of the flag.
C6_Original ==
    (pdata.present /\ probePc # "check") =>
        /\ NegotiationFailed <=> C6_FailCases
        /\ NegotiationPassed <=> ~C6_FailCases
        /\ RawReadsUse(pdata.blocking_io)

\* C6 amended: negotiation fails with -ENODEV exactly in the two cases
\* above or when the transport lacks SMBus write-byte or read-word-data;
\* in every other case it passes, and raw reads run in the mode of the flag.
C6_ConfiguredMode ==
    (pdata.present /\ probePc # "check") =>
        /\ NegotiationFailed <=> (~SMBusOK \/ C6_FailCases)
        /\ NegotiationPassed <=> ~(~SMBusOK \/ C6_FailCases)
        /\ RawReadsUse(pdata.blocking_io)

\* C6 witness: the configuration asks for no-hold mode on a transport that
\* can clock-stretch and has raw I/O, and a raw read is polling.
C6_Witness ==
    /\ pdata.present /\ ~pdata.blocking_io /\ ~NoClkStretch /\ RawIO
    /\ \E p \in Procs : call[p].pc = "recv" /\ ~call[p].holdmode

\* C7: an error returned by a Raw read is the error the failing transport
\* call returned: in hold mode that of the one combined transaction; in
\* no-hold mode that of the command write, with no read attempt and no
\* sleep made, or that of the last failed read attempt.
C7_ErrorsUnmodified ==
    \A p \in Procs :
        LET c == call[p] IN
        (RawDone(c) /\ c.rv < 0) =>
            /\ c.rv = c.xerr
            /\ c.xerr \in TransportErrors
            /\ c.holdmode => (c.nxfer = 1 /\ c.nrecv = 0 /\ c.nsleep = 0)
            /\ ~c.holdmode => (c.nxfer = 0 /\ Len(c.cmds) = 1)
            /\ (~c.holdmode /\ c.nrecv = 0) => c.nsleep = 0

\* C7 witness: a no-hold read gave up after three failed attempts and
\* returned -ETIMEDOUT, the error of the last one.
C7_Witness ==
    \E p \in Procs :
        LET c == call[p] IN
        TimedOutDone(c) /\ c.nrecv = 3 /\ c.xerr = -110 /\ c.rv = -110

\* C8 as stated: a no-hold Raw read that exceeds its polling budget
\* returns a timeout error that no failed bus transfer returns.
C8_Original ==
    \A p \in Procs :
        TimedOutDone(call[p]) => call[p].rv \notin TransportErrors

\* C8 amended: a no-hold Raw read that exceeds its polling budget returns
\* the bus error of its last failed read attempt, whichever that is.
C8_TimeoutReturnsBusError ==
    \A p \in Procs :
        TimedOutDone(call[p]) =>
            (call[p].rv \in TransportErrors /\ call[p].rv = call[p].xerr)

\* C8 witness: a read that exceeded its budget returned -ENXIO.
C8_Witness ==
    \E p \in Procs : TimedOutDone(call[p]) /\ call[p].rv = -6

\* C9: a read with a query kind other than Raw, Scale and Offset returns
\* -EINVAL, makes no transport call and leaves *val and *val2 unwritten.
C9_InvalidQuery ==
    \A p \in Procs :
        LET c == call[p] IN
        (c.pc = "done" /\ c.mask \notin {"IIO_CHAN_INFO_RAW", "IIO_CHAN_INFO_SCALE",
                                          "IIO_CHAN_INFO_OFFSET"}) =>
            /\ c.rv = -22
            /\ NoTransport(c)
            /\ c.val = Unwritten /\ c.val2 = Unwritten

\* C9 witness: a Humidity read with an unknown query kind returned, in
\* no-hold mode, after an earlier raw read had used the bus.
C9_Witness ==
    \E p \in Procs :
        LET c == call[p] IN
        /\ c.pc = "done" /\ c.mask = "IIO_CHAN_INFO_PROCESSED"
        /\ c.type = "IIO_HUMIDITYRELATIVE" /\ c.rv = -22
        /\ ~HoldMode(pdata, adapter) /\ devCmd # 0

\* C10: a Scale query makes no transport call and returns, tagged
\* IIO_VAL_FRACTIONAL, 175720/16384 for Temperature and 125000/16384 for
\* Humidity, in every state in which it is called.
C10_ScalePure ==
    \A p \in Procs :
        LET c == call[p] IN
        (c.pc = "done" /\ c.mask = "IIO_CHAN_INFO_SCALE") =>
            /\ c.rv = 10
            /\ c.val2 = 16384
            /\ c.type = "IIO_TEMP" => c.val = 175720
            /\ c.type = "IIO_HUMIDITYRELATIVE" => c.val = 125000
            /\ NoTransport(c)

\* C10 witness: a Temperature Scale query returned after a raw read had
\* left its command in the device.
C10_Witness ==
    \E p \in Procs :
        LET c == call[p] IN
        /\ c.pc = "done" /\ c.mask = "IIO_CHAN_INFO_SCALE" /\ c.type = "IIO_TEMP"
        /\ c.val = 175720 /\ devCmd = SI7020CMD_RH_NO_HOLD

\* C11: an Offset query makes no transport call and returns, tagged
\* IIO_VAL_INT, exactly -4368 for Temperature and -786 for Humidity.
C11_OffsetPure ==
    \A p \in Procs :
        LET c == call[p] IN
        (c.pc = "done" /\ c.mask = "IIO_CHAN_INFO_OFFSET") =>
            /\ c.rv = 1
            /\ c.type = "IIO_TEMP" => c.val = -4368
            /\ c.type = "IIO_HUMIDITYRELATIVE" => c.val = -786
            /\ NoTransport(c)

\* C11 witness: a Humidity Offset query returned -786 on a hold-mode
\* device, after a raw read had used the bus.
C11_Witness ==
    \E p \in Procs :
        LET c == call[p] IN
        /\ c.pc = "done" /\ c.mask = "IIO_CHAN_INFO_OFFSET"
        /\ c.type = "IIO_HUMIDITYRELATIVE" /\ c.val = -786
        /\ HoldMode(pdata, adapter) /\ devCmd = SI7020CMD_TEMP_HOLD

\* C12: a Raw read that returns an error leaves *val unwritten, and one
\* that returns success computed *val from a complete 2-byte sample the
\* transport delivered to this call; a read attempt that delivers fewer
\* than 2 bytes is never taken for a sample.
C12_NoPartialSuccess ==
    \A p \in Procs :
        LET c == call[p] IN
        RawDone(c) =>
            /\ c.rv < 0 => c.val = Unwritten
            /\ c.rv >= 0 => Delivered(c)

\* C13: raw reads run only on an attached device, all in the one mode the
\* attach-time checks admitted; a hold-mode transaction is issued only on
\* a transport that can clock-stretch and has SMBus read-word, a no-hold
\* write and raw read only on one that has raw I/O.
C13_ModeSupported ==
    \A p \in Procs :
        LET c == call[p] IN
        (c.pc # "idle" /\ c.mask = "IIO_CHAN_INFO_RAW") =>
            /\ probePc = "attached"
            /\ c.holdmode = (IF pdata.present THEN pdata.blocking_io ELSE ~NoClkStretch)
            /\ c.holdmode => (~NoClkStretch /\ SMBusOK /\ c.nxfer = 1 /\ c.nrecv = 0)
            /\ ~c.holdmode => (RawIO /\ SMBusOK /\ c.nxfer = 0)

\* C13 witness: the configuration asked for hold mode, the device
\* attached, and a raw read made its combined transaction.
C13_Witness ==
    /\ pdata.present /\ pdata.blocking_io /\ probePc = "attached"
    /\ \E p \in Procs : RawOk(call[p]) /\ call[p].holdmode /\ call[p].nxfer = 1

\* the two ways a polling read ends: a read attempt returned without an
\* error (Succeeded), or a failed attempt found the timeout expired and
\* its bus error is returned (TimedOut)
Succeeded(c) == c.pc = "done" /\ c.ret >= 0 /\ c.rv = 1
GaveUp(c) ==
    /\ c.pc = "done" /\ c.ret < 0 /\ c.rv = c.ret /\ c.rv \in TransportErrors
    /\ TimeoutExpired(c, now)

\* while a read polls, every sleep took at least 2000 us of a time that
\* stays below the budget rounded up to ticks, plus a tick and a sleep
PollingBounded ==
    \A p \in Procs :
        LET c == call[p] IN
        c.pc \in {"recv", "failed"} =>
            LET timeout == IF c.type = "IIO_TEMP" THEN 10800 ELSE 22800 IN
            /\ c.nsleep * 2000 <= Elapsed(c)
            /\ Elapsed(c) < (TicksCovering(timeout) + 1) * TickUs(HZ) + 6000

\* C14: every no-hold Raw read whose command write succeeded ends, as
\* Succeeded or as TimedOut and in no other way, whatever the read
\* attempts return, given that calls and sleeps return: the number of
\* sleeps it can make is bounded, and from polling it reaches its end.
C14_PollingTerminates ==
    /\ []PollingBounded
    /\ \A p \in {1} :
          (call[p].pc = "recv") ~> (Succeeded(call[p]) \/ GaveUp(call[p]))

\* C14 witness: a polling read that has failed five attempts and is
\* still within its budget.
C14_Witness ==
    \E p \in Procs :
        /\ call[p].pc = "failed" /\ call[p].nrecv = 5
        /\ ~TimeoutExpired(call[p], now)

\* the probe's steps so far are a prefix of: reset write, delay, alloc, register
ProbeOrder(log) ==
    /\ Len(log) <= 4
    /\ Len(log) >= 1 => log[1] = [op |-> "write", arg |-> 254]
    /\ Len(log) >= 2 => (log[2].op = "msleep" /\ log[2].arg >= 15000)
    /\ Len(log) >= 3 => log[3].op = "alloc"
    /\ Len(log) >= 4 => log[4].op = "register"

\* C15: attach is ordered: the capability checks come before any bus
\* traffic and their failure sends no command; then the reset command
\* 0xFE is written, then at least 15 ms pass, and only after that are the
\* two channels registered; a failed reset write ends attach with the
\* write's error and without any channel.
C15_AttachOrdered ==
    /\ ProbeOrder(probeLog)
    /\ probePc = "check" => probeLog = <<>>
    /\ (~SMBusOK \/ (pdata.present /\ C6_FailCases)
           \/ (~pdata.present /\ NoClkStretch /\ ~RawIO)) => probeLog = <<>>
    /\ channels # {} =>
          (channels = ChanTypes /\ Len(probeLog) = 4 /\ probePc = "attached")
    /\ (probePc = "failed" /\ Len(probeLog) = 1) => probeRet \in TransportErrors
    /\ probePc = "failed" => (channels = {} /\ probeRet < 0)

\* C15 witness: the reset write failed with -ENXIO and attach ended
\* with that error, nothing registered.
C15_Witness ==
    /\ probePc = "failed" /\ probeRet = -6 /\ channels = {}
    /\ probeLog = <<[op |-> "write", arg |-> 254]>>

\* C16: the only command the probe writes is 0xFE; a Raw read has sent
\* exactly one command, 0xE5 / 0xE3 for hold Humidity / Temperature and
\* 0xF5 / 0xF3 for no-hold Humidity / Temperature; other queries send none.
C16_CommandBytes ==
    /\ \A i \in 1..Len(probeLog) :
          probeLog[i].op = "write" => probeLog[i].arg = 254
    /\ devCmd \in {0, 229, 227, 245, 243}
    /\ \A p \in Procs :
          LET c == call[p] IN
          /\ (c.pc # "idle" /\ c.mask = "IIO_CHAN_INFO_RAW") =>
                c.cmds = << IF c.holdmode
                            THEN (IF c.type = "IIO_HUMIDITYRELATIVE" THEN 229 ELSE 227)
                            ELSE (IF c.type = "IIO_HUMIDITYRELATIVE" THEN 245 ELSE 243) >>
          /\ (c.pc = "idle" \/ c.mask # "IIO_CHAN_INFO_RAW") => c.cmds = <<>>

\* C16 witness: a no-hold Humidity read that polled has sent 0xF5 only.
C16_Witness ==
    \E p \in Procs :
        LET c == call[p] IN
        /\ RawDone(c) /\ ~c.holdmode /\ c.type = "IIO_HUMIDITYRELATIVE"
        /\ c.nrecv >= 2 /\ c.cmds = <<245>>

\* C17: a polling read gives up only right after a failed read attempt
\* that found more than the timeout elapsed: at least one attempt was
\* made (a read that ended without any is a failed command write), no
\* sleep followed the last one, the time is above the timeout;
\* and an attempt that returns without error ends the read with success
\* whatever the elapsed time.
C17_TimedOutEntry ==
    \A p \in Procs :
        LET c == call[p] IN
        /\ c.pc = "failed" => (c.nrecv >= 1 /\ c.nsleep = c.nrecv - 1)
        /\ (RawDone(c) /\ ~c.holdmode /\ c.nrecv = 0) =>
              (c.rv < 0 /\ c.rv = c.xerr /\ c.nsleep = 0)
        /\ (RawDone(c) /\ ~c.holdmode /\ c.nrecv > 0) =>
            LET timeout == IF c.type = "IIO_TEMP" THEN 10800 ELSE 22800 IN
            /\ c.nsleep = c.nrecv - 1
            /\ c.rv < 0 => (c.ret < 0 /\ c.rv = c.ret /\ Elapsed(c) > timeout)
            /\ c.ret >= 0 => c.rv = 1

\* C17 witness: a Humidity read attempt succeeded more than 22.8 ms after
\* the write, when a failure would have given up, and the read succeeded.
C17_Witness ==
    \E p \in Procs :
        LET c == call[p] IN
        /\ RawOk(c) /\ ~c.holdmode /\ c.type = "IIO_HUMIDITYRELATIVE"
        /\ Delivered(c) /\ TimeoutExpired(c, now) /\ Elapsed(c) > 22800

\* the no-hold command of a channel, as the data sheet numbers them
OwnCommand(c) == IF c.type = "IIO_HUMIDITYRELATIVE" THEN 245 ELSE 243

\* a no-hold read returned bytes the device converted for another command
ForeignSample(c) ==
    /\ RawOk(c) /\ ~c.holdmode /\ Delivered(c)
    /\ c.sample # OwnCommand(c)

\* C18: with at most one request in flight per device, the bytes a
\* successful no-hold read received are the device's conversion result
\* for that request's own command. (The other half of the claim, that
\* without serialisation a request can return the result of the other
\* request's command, is the reachability of C18_Witness.)
C18_SerializedOwnSample ==
    serialized => \A p \in Procs : ~ForeignSample(call[p])

\* C18 witness: two unserialised no-hold reads of different kinds are in
\* flight, and one has returned the result of the other's command.
C18_Witness ==
    /\ ~serialized
    /\ \E p, q \in Procs :
          /\ p # q
          /\ ForeignSample(call[p])
          /\ call[q].pc \in {"recv", "failed", "done"}
          /\ call[q].mask = "IIO_CHAN_INFO_RAW" /\ ~call[q].holdmode
          /\ call[q].type # call[p].type
          /\ call[q].cmds = <<call[p].sample>>

\* the physical value of a raw reading r of a channel, in milli-units,
\* from the driver's offset and scale: (r + offset) * scale / 2^14
Physical(type, r) == ((r + OffsetVal(type)) * ScaleVal(type)) \div ScaleVal2

\* C19: every value a Humidity Raw read returns maps, through the
\* driver's own offset -786 and scale 125000 / 16384, to a relative
\* humidity in [0, 100000] milli-percent; the clamp bounds are the ends
\* of that span: one step below 786 is negative, one above 13893 is
\* over 100000.
C19_HumiditySpan ==
    /\ \A p \in Procs :
          LET c == call[p] IN
          (RawOk(c) /\ c.type = "IIO_HUMIDITYRELATIVE") =>
              /\ Physical(c.type, c.val) >= 0
              /\ Physical(c.type, c.val) <= 100000
    /\ Physical("IIO_HUMIDITYRELATIVE", 786) = 0
    /\ Physical("IIO_HUMIDITYRELATIVE", 785) < 0
    /\ Physical("IIO_HUMIDITYRELATIVE", 13893) <= 100000
    /\ Physical("IIO_HUMIDITYRELATIVE", 13894) > 100000

\* C19 witness: a Humidity read of the word 65535 (16383 before the
\* clamp) returned 13893, which is 99998 milli-percent.
C19_Witness ==
    \E p \in Procs :
        LET c == call[p] IN
        /\ RawOk(c) /\ c.type = "IIO_HUMIDITYRELATIVE"
        /\ Delivered(c) /\ WordOf(c) = 65535
        /\ c.val = 13893 /\ Physical(c.type, c.val) = 99998

=============================================================================
